---- MODULE Spec2Model ----
(***************************************************************************)
(* Model of the tag generator's orchestration engine:                      *)
(*   - ProviderFactory (src/src/providers/claude-provider.ts, l.267-678):  *)
(*     the static provider pool with cooldowns, the failed-provider set,   *)
(*     the active-provider Map, fallback creation and the idle sweep;      *)
(*   - FileProcessor.processFile (src/unnamed/part_000, l.93-265): the     *)
(*     per-document pipeline, one action per segment between two awaits;   *)
(*   - FileProcessor.processAllFiles / processDirectory (l.288-444): the   *)
(*     batch loop;                                                         *)
(*   - the plugin's settings object and onunload (src/unnamed/part_002).   *)
(*                                                                         *)
(* Time is Date.now() in milliseconds.  A provider object is identified by *)
(* a positive integer (0 is null); a new object takes the smallest integer *)
(* no live reference holds, so that identity comparisons are exact.        *)
(***************************************************************************)
EXTENDS Integers, Sequences, FiniteSets, TLC

\* ---------------------------------------------------------------- bounds
MaxTicks == 1      \* number of clock advances in one behaviour
MaxDocs == 6       \* largest number of files of one batch run
MaxLen == 2        \* longest tag, in characters
MaxEntries == 3    \* most tags of one tag computation, vocabulary and candidates together
MaxRawLen == 3     \* longest raw tag handed to the normalization, in characters
MaxLines == 3      \* most lines of a document
MaxItems == 2      \* most elements, or comma-separated pieces, of a backend's answer

\* ------------------------------------------------------ program constants
cooldownDuration == 60000
maxActiveProviders == 2
maxProviderIdleTime == 5 * 60 * 1000
batchSize == 5

\* LLMProvider enum
Kinds == {"claude", "openai"}
\* default model identifiers of the two kinds (DEFAULT_SETTINGS)
DefaultModel(k) == IF k = "claude" THEN "claude-3-7-sonnet-20250219" ELSE "gpt-4o"
\* the document shapes the pipeline distinguishes after vault.read:
\* no frontmatter match / frontmatter without "tags:" / frontmatter with "tags:"
Shapes == {"NoMetadata", "MetadataNoTags", "MetadataWithTags"}
\* the two callers of processFile: the batch loop (showNotices = false) and
\* the single-file command (showNotices = true).  One command runs at a time
\* (the single logical task stream of the design): a command starts when the
\* previous one has returned
Procs == {"batch", "single"}
\* numbers of files of a batch run: none, less than a group, one full group,
\* more than a group
BatchTotals == {0, 2, batchSize, MaxDocs}
\* clock advances: one millisecond, one cooldown period, just over one idle lifetime
Steps == {1, cooldownDuration, maxProviderIdleTime + 1}

VARIABLES
    now,               \* Date.now()
    ticks,             \* number of clock advances so far
    loaded,            \* the plugin is loaded (between onload and onunload)
    settings,          \* the AIExcerptSettings object shared by plugin and FileProcessor
    providerCooldowns, \* ProviderFactory.providerCooldowns; 0 = no entry
    failedProviders,   \* ProviderFactory.failedProviders
    activeProviders,   \* ProviderFactory.activeProviders, in Map insertion order
    cleanupInterval,   \* ProviderFactory.cleanupInterval is set
    run,               \* per caller: the processFile invocation in flight
    batch,             \* the batch loop of processAllFiles / processDirectory
    reportedAt,        \* history: time of the last reportProviderFailure per kind, -1 = never
    job                \* the tag computation at hand: its inputs and, once applied, its results

vars == <<now, ticks, loaded, settings, providerCooldowns, failedProviders,
          activeProviders, cleanupInterval, run, batch, reportedAt, job>>

\* ============================================================ ProviderFactory

Other(k) == IF k = "claude" THEN "openai" ELSE "claude"
ApiKeyOf(s, k) == IF k = "claude" THEN s.claudeApiKey ELSE s.openaiApiKey
ModelOf(s, k) == IF k = "claude" THEN s.claudeModel ELSE s.openaiModel

\* `${provider}-${model}`
getProviderId(s) ==
    [kind |-> s.provider, fallback |-> FALSE, model |-> ModelOf(s, s.provider), at |-> 0]

\* `${kind}-fallback-${Date.now()}`
FallbackId(k, t) == [kind |-> k, fallback |-> TRUE, model |-> "", at |-> t]

\* Map.set: an existing key keeps its position, a new key goes last
MapSet(ap, entry) ==
    IF \E i \in 1..Len(ap) : ap[i].id = entry.id
    THEN [i \in 1..Len(ap) |-> IF ap[i].id = entry.id THEN entry ELSE ap[i]]
    ELSE Append(ap, entry)

\* Map.delete
MapDelete(ap, id) == SelectSeq(ap, LAMBDA e : e.id # id)

\* an entry of the Map; released records that the provider of the entry has
\* been passed to releaseProvider since it was stored
Entry(id, obj, t) ==
    [id |-> id, kind |-> id.kind, obj |-> obj, lastUsed |-> t, released |-> FALSE]

isProviderInCooldown(cd, k, t) == cd[k] # 0 /\ t < cd[k]

setProviderCooldown(cd, k, t) == [cd EXCEPT ![k] = t + cooldownDuration]

\* first entry, in Map order, whose provider is an instance of the kind's class
getExistingProvider(ap, k, t) ==
    LET hits == {i \in 1..Len(ap) : ap[i].kind = k}
    IN IF hits = {} THEN [active |-> ap, ret |-> 0]
       ELSE LET i == CHOOSE j \in hits : \A h \in hits : j <= h
            IN [active |-> [ap EXCEPT ![i].lastUsed = t], ret |-> ap[i].obj]

\* removes the first entry with the smallest lastUsed (the scan uses a strict <)
cleanupOldestProvider(ap) ==
    IF Len(ap) = 0 THEN ap
    ELSE LET i == CHOOSE j \in 1..Len(ap) :
                    /\ \A h \in 1..Len(ap) : ap[j].lastUsed <= ap[h].lastUsed
                    /\ \A h \in 1..(j - 1) : ap[h].lastUsed > ap[j].lastUsed
         IN MapDelete(ap, ap[i].id)

\* a sweep that removes every entry, idle or not
cleanupIdleProvidersAll(ap, t) == <<>>

\* removes every entry idle for more than maxProviderIdleTime
cleanupIdleProviders(ap, t) ==
    SelectSeq(ap, LAMBDA e : ~(t - e.lastUsed > maxProviderIdleTime))

\* createFallbackProvider without the cooldown check of the fallback kind
createFallbackProviderNoCooldownCheck(ap, cd, s, primary, t, obj) ==
    LET fk == Other(primary)
        none == [active |-> ap, provider |-> 0, fallbackType |-> fk,
                 needsConfiguration |-> FALSE, success |-> FALSE]
    IN IF ApiKeyOf(s, fk)
       THEN [active |-> MapSet(ap, Entry(FallbackId(fk, t), obj, t)),
             provider |-> obj, fallbackType |-> fk,
             needsConfiguration |-> FALSE, success |-> TRUE]
       ELSE [none EXCEPT !.needsConfiguration = TRUE]

\* createFallbackProvider choosing the primary kind itself as the fallback
createFallbackProviderSameKind(ap, cd, s, primary, t, obj) ==
    LET fk == primary
        none == [active |-> ap, provider |-> 0, fallbackType |-> fk,
                 needsConfiguration |-> FALSE, success |-> FALSE]
    IN IF isProviderInCooldown(cd, fk, t) THEN none
       ELSE IF ApiKeyOf(s, fk)
            THEN [active |-> MapSet(ap, Entry(FallbackId(fk, t), obj, t)),
                  provider |-> obj, fallbackType |-> fk,
                  needsConfiguration |-> FALSE, success |-> TRUE]
            ELSE [none EXCEPT !.needsConfiguration = TRUE]

\* createFallbackProvider(settings, primaryProvider); obj is the identity a newly
\* constructed provider gets
createFallbackProvider(ap, cd, s, primary, t, obj) ==
    LET fk == Other(primary)
        none == [active |-> ap, provider |-> 0, fallbackType |-> fk,
                 needsConfiguration |-> FALSE, success |-> FALSE]
    IN IF isProviderInCooldown(cd, fk, t) THEN none
       ELSE IF ApiKeyOf(s, fk)
            THEN [active |-> MapSet(ap, Entry(FallbackId(fk, t), obj, t)),
                  provider |-> obj, fallbackType |-> fk,
                  needsConfiguration |-> FALSE, success |-> TRUE]
            ELSE [none EXCEPT !.needsConfiguration = TRUE]

\* the switch of createProvider: null without an API key, else a new provider
\* stored under getProviderId
CreateAndStore(ap, s, t, obj, fbCalls) ==
    IF ~ApiKeyOf(s, s.provider)
    THEN [active |-> ap, ret |-> 0, fbCalls |-> fbCalls]
    ELSE [active |-> MapSet(ap, Entry(getProviderId(s), obj, t)),
          ret |-> obj, fbCalls |-> fbCalls]

\* the bound check of createProvider and what follows it
BoundCheck(ap, s, t, obj, fbCalls) ==
    IF Len(ap) >= maxActiveProviders
    THEN LET ex == getExistingProvider(ap, s.provider, t)
         IN IF ex.ret # 0
            THEN [active |-> ex.active, ret |-> ex.ret, fbCalls |-> fbCalls]
            ELSE CreateAndStore(cleanupOldestProvider(ap), s, t, obj, fbCalls)
    ELSE CreateAndStore(ap, s, t, obj, fbCalls)

\* createProvider without its first check, the one of the failed-provider set
createProviderNoFailedCheck(ap, cd, failed, s, t, obj) ==
    IF isProviderInCooldown(cd, s.provider, t)
    THEN LET fb == createFallbackProvider(ap, cd, s, s.provider, t, obj)
         IN IF fb.provider # 0
            THEN [active |-> fb.active, ret |-> fb.provider, fbCalls |-> 1]
            ELSE BoundCheck(ap, s, t, obj, 1)
    ELSE BoundCheck(ap, s, t, obj, 0)

\* createProvider(settings): ret = 0 is null; fbCalls counts the calls of
\* createFallbackProvider it made
createProvider(ap, cd, failed, s, t, obj) ==
    IF s.provider \in failed
    THEN [active |-> ap, ret |-> 0, fbCalls |-> 0]
    ELSE IF isProviderInCooldown(cd, s.provider, t)
         THEN LET fb == createFallbackProvider(ap, cd, s, s.provider, t, obj)
              IN IF fb.provider # 0
                 THEN [active |-> fb.active, ret |-> fb.provider, fbCalls |-> 1]
                 ELSE BoundCheck(ap, s, t, obj, 1)
         ELSE BoundCheck(ap, s, t, obj, 0)

\* releaseProvider deleting the entry it finds
releaseProviderDeletes(ap, obj, t) ==
    SelectSeq(ap, LAMBDA e : e.obj # obj)

\* releaseProvider(provider): refreshes lastUsed of the first entry holding it
releaseProvider(ap, obj, t) ==
    LET hits == {i \in 1..Len(ap) : ap[i].obj = obj}
    IN IF hits = {} THEN ap
       ELSE LET i == CHOOSE j \in hits : \A h \in hits : j <= h
            IN [ap EXCEPT ![i].lastUsed = t, ![i].released = TRUE]

\* shutdown() leaving the cooldown entries in place
shutdownKeepsCooldowns(ap, cd) ==
    [active |-> <<>>, cooldowns |-> cd, interval |-> FALSE]

\* shutdown(): clears the timer, every active provider and every cooldown; the
\* failed-provider set is left as it is
shutdown(ap, cd) ==
    [active |-> <<>>, cooldowns |-> [k \in Kinds |-> 0], interval |-> FALSE]

\* ==================================================================== TagUtils

\* a string is a sequence of characters; tags are built from these two
TagChars == {"a", "b"}

\* sequences over S of length at most n
SeqsUpTo(S, n) == UNION {[1..k -> S] : k \in 0..n}

Range(seq) == {seq[i] : i \in 1..Len(seq)}

Min3(x, y, z) == IF x <= y /\ x <= z THEN x ELSE IF y <= z THEN y ELSE z

\* one row of the matrix of levenshteinDistance: cells 0..Len(a) of row j, kept
\* at indices 1..Len(a)+1; prev is row j - 1, acc the cells filled so far
RECURSIVE FillRow(_, _, _, _, _)
FillRow(a, b, j, prev, acc) ==
    LET i == Len(acc)
    IN IF i > Len(a) THEN acc
       ELSE LET substitutionCost == IF a[i] = b[j] THEN 0 ELSE 1
                cell == Min3(acc[i] + 1, prev[i + 1] + 1, prev[i] + substitutionCost)
            IN FillRow(a, b, j, prev, Append(acc, cell))

\* rows 1..Len(b) of the matrix, from row 0 = <<0, 1, ..., Len(a)>>
RECURSIVE LastRow(_, _, _, _)
LastRow(a, b, j, prev) ==
    IF j > Len(b) THEN prev
    ELSE LastRow(a, b, j + 1, FillRow(a, b, j, prev, <<j>>))

levenshteinDistance(a, b) ==
    IF Len(a) = 0 THEN Len(b)
    ELSE IF Len(b) = 0 THEN Len(a)
    ELSE LastRow(a, b, 1, [i \in 1..(Len(a) + 1) |-> i - 1])[Len(a) + 1]

\* the default of the threshold parameter of findSimilarTags
defaultThreshold == 2

\* findSimilarTags(tag, threshold) over existingTags = getAllVaultTags(): a filter
findSimilarTags(existingTags, tag, threshold) ==
    SelectSeq(existingTags,
              LAMBDA existingTag :
                  LET distance == levenshteinDistance(tag, existingTag)
                  IN distance <= threshold /\ distance > 0)

\* the loop body without the exact-match test
enhanceOneTagNoExactCheck(existingTags, tag) ==
    LET similarTags == findSimilarTags(existingTags, tag, defaultThreshold)
    IN IF Len(similarTags) > 0 THEN similarTags[1] ELSE tag

\* the body of the loop of enhanceTagConsistency: the tag added for one candidate
enhanceOneTag(existingTags, tag) ==
    IF tag \in Range(existingTags) THEN tag
    ELSE LET similarTags == findSimilarTags(existingTags, tag, defaultThreshold)
         IN IF Len(similarTags) > 0 THEN similarTags[1] ELSE tag

\* Array.from(new Set(...)): first occurrences, in insertion order
RECURSIVE ArrayFromSet(_)
ArrayFromSet(seq) ==
    IF seq = <<>> THEN <<>>
    ELSE LET front == ArrayFromSet(SubSeq(seq, 1, Len(seq) - 1))
             last == seq[Len(seq)]
         IN IF last \in Range(front) THEN front ELSE Append(front, last)

enhanceTagConsistency(existingTags, generatedTags) ==
    ArrayFromSet([i \in 1..Len(generatedTags) |->
                     enhanceOneTag(existingTags, generatedTags[i])])

\* ================================================================ formatTags

\* characters of a raw tag: a lowercase letter, an uppercase letter, a digit,
\* the hyphen, the slash, a blank and one character outside [a-z0-9/-]
RawChars == {"a", "B", "7", "-", "/", " ", "_"}

\* the characters [a-z0-9/\-] among them and their lowercase forms
AllowedChars == {"a", "b", "7", "/", "-"}

\* String.prototype.toLowerCase
toLowerCase(s) == [i \in 1..Len(s) |-> IF s[i] = "B" THEN "b" ELSE s[i]]

\* String.prototype.trim
RECURSIVE trimStart(_)
trimStart(s) == IF s # <<>> /\ s[1] = " " THEN trimStart(Tail(s)) ELSE s

RECURSIVE trimEnd(_)
trimEnd(s) ==
    IF s # <<>> /\ s[Len(s)] = " " THEN trimEnd(SubSeq(s, 1, Len(s) - 1)) ELSE s

trim(s) == trimEnd(trimStart(s))

\* .replace(/[^a-z0-9/\-]/g, "-")
replaceDisallowed(s) == [i \in 1..Len(s) |-> IF s[i] \in AllowedChars THEN s[i] ELSE "-"]

\* .replace(/-+/g, "-")
RECURSIVE collapseHyphens(_)
collapseHyphens(s) ==
    IF Len(s) <= 1 THEN s
    ELSE IF s[1] = "-" /\ s[2] = "-" THEN collapseHyphens(Tail(s))
    ELSE <<s[1]>> \o collapseHyphens(Tail(s))

\* .replace(/^-|-$/g, "")
stripEdgeHyphens(s) ==
    LET t == IF s # <<>> /\ s[1] = "-" THEN Tail(s) ELSE s
    IN IF t # <<>> /\ t[Len(t)] = "-" THEN SubSeq(t, 1, Len(t) - 1) ELSE t

\* the chain with its last two replacements in the other order
normalizeStripBeforeCollapse(tag) ==
    collapseHyphens(stripEdgeHyphens(replaceDisallowed(trim(toLowerCase(tag)))))

\* formattedTag of formatTags: the normalization of one tag
normalize(tag) ==
    stripEdgeHyphens(collapseHyphens(replaceDisallowed(trim(toLowerCase(tag)))))

\* formatTags(tags) under settings.tagPrefix = prefix
formatTags(prefix, tags) == [i \in 1..Len(tags) |-> prefix \o normalize(tags[i])]

\* ================================================================= FileUtils

\* a text is the sequence of its lines (the pieces between two "\n"); the
\* empty string is the one empty line.  A line is pre + tag + post, where tag
\* is a tag (a sequence of characters) and pre, post are fixed pieces of text
Line(pre) == [pre |-> pre, tag |-> <<>>, post |-> ""]
TagLine(pre, tag, post) == [pre |-> pre, tag |-> tag, post |-> post]

EmptyText == <<Line("")>>

\* the lines that begin with "---": the delimiter itself and a longer line
StartsWithDashes(line) == line.pre \in {"---", "---x"}

\* the match with the closing delimiter optional: /^---\n([\s\S]*?)(\n---|$)/
frontmatterMatchOpenEnded(content) ==
    LET closers == {j \in 3..Len(content) : StartsWithDashes(content[j])}
    IN IF Len(content) >= 2 /\ content[1] = Line("---")
       THEN IF closers # {} THEN CHOOSE j \in closers : \A h \in closers : j <= h
            ELSE Len(content) + 1
       ELSE 0

\* content.match(/^---\n([\s\S]*?)\n---/): the first line is "---" and is
\* followed by a newline; the lazy group ends at the first later newline that
\* "---" follows, which is the start of the first line from the third on that
\* begins with "---".  closing = 0 is no match
frontmatterMatch(content) ==
    LET closers == {j \in 3..Len(content) : StartsWithDashes(content[j])}
    IN IF Len(content) >= 2 /\ content[1] = Line("---") /\ closers # {}
       THEN CHOOSE j \in closers : \A h \in closers : j <= h
       ELSE 0

\* FileUtils.extractFrontmatter(content); frontmatter is the group of the match
extractFrontmatter(content) ==
    IF content = EmptyText
    THEN [hasFrontmatter |-> FALSE, frontmatter |-> <<>>]
    ELSE LET j == frontmatterMatch(content)
         IN IF j = 0
            THEN [hasFrontmatter |-> FALSE, frontmatter |-> <<>>]
            ELSE [hasFrontmatter |-> TRUE, frontmatter |-> SubSeq(content, 2, j - 1)]

\* frontmatter && frontmatter.includes("tags:"); the group "" is falsy
hasTagsField(frontmatter) ==
    /\ frontmatter # EmptyText
    /\ \E i \in 1..Len(frontmatter) : frontmatter[i].pre = "tags: t"

\* `tags:\n${tags.map((tag) => `  - ${tag}`).join("\n")}` always, also for one tag
createContentWithTagsBlockOnly(content, tags) ==
    IF content = EmptyText THEN EmptyText
    ELSE IF Len(tags) = 0 THEN content
    ELSE <<Line("---"), Line("tags:")>>
             \o [i \in 1..Len(tags) |-> TagLine("  - ", tags[i], "")]
             \o <<Line("---"), Line("")>> \o content

\* FileUtils.createContentWithTags(content, tags)
createContentWithTags(content, tags) ==
    IF content = EmptyText THEN EmptyText
    ELSE IF Len(tags) = 0 THEN content
    ELSE LET tagsYaml ==
                 IF Len(tags) = 1 THEN <<TagLine("tags: [", tags[1], "]")>>
                 ELSE <<Line("tags:")>>
                          \o [i \in 1..Len(tags) |-> TagLine("  - ", tags[i], "")]
         IN <<Line("---")>> \o tagsYaml \o <<Line("---"), Line("")>> \o content

\* ================================================= providers' generateTags

\* what the backend answered.  shape: "null" = no response object (for Claude
\* also one without content), "noBlocks" = content / choices is an empty
\* array, "nonText" = the first block is no text block (Claude), the message
\* content is null (OpenAI), "text" = a text.  A text is either a JSON array
\* (json, with its elements in tags) or anything else, given by its pieces
\* between commas
NoText == [json |-> FALSE, tags |-> <<>>, pieces |-> <<<<>>>>]

\* String.prototype.trim on a text that is no JSON array
trimText(pieces) ==
    [i \in 1..Len(pieces) |->
        LET front == IF i = 1 THEN trimStart(pieces[i]) ELSE pieces[i]
        IN IF i = Len(pieces) THEN trimEnd(front) ELSE front]

\* responseText: the text of the first block, or "" (l.108-111, l.222-223)
responseText(kind, response) ==
    IF response.shape = "nonText" THEN NoText
    ELSE IF kind = "openai" /\ ~response.text.json
         THEN [response.text EXCEPT !.pieces = trimText(@)]
         ELSE response.text

\* the parse of responseText (l.114-130, l.226-242): JSON.parse, and on its
\* failure split(/[,\n]/), trim and filter of the non-empty pieces
parseTags(text) ==
    IF text.json THEN text.tags
    ELSE SelectSeq([i \in 1..Len(text.pieces) |-> trim(text.pieces[i])],
                   LAMBDA tag : Len(tag) > 0)

\* ClaudeProvider.generateTags / OpenAIProvider.generateTags from the response
\* on: ok = FALSE is a rejected promise.  "null" throws the Empty response
\* error; "noBlocks" throws it for OpenAI and a TypeError on content[0] for Claude
generateTags(kind, response) ==
    IF response.shape \in {"null", "noBlocks"}
    THEN [ok |-> FALSE, tags |-> <<>>]
    ELSE [ok |-> TRUE, tags |-> parseTags(responseText(kind, response))]

\* `delete frontmatter["tags"]` first: the property is created anew, at the end
setTagsDeleteFirst(fields, formattedTags) ==
    Append(SelectSeq(fields, LAMBDA f : f.key # "tags"),
           [key |-> "tags", value |-> formattedTags])

\* frontmatter["tags"] = formattedTags on the object processFrontMatter hands
\* to its callback: fields in property order; an own property keeps its place,
\* a new one goes last
setTags(fields, formattedTags) ==
    IF \E i \in 1..Len(fields) : fields[i].key = "tags"
    THEN [i \in 1..Len(fields) |->
             IF fields[i].key = "tags" THEN [fields[i] EXCEPT !.value = formattedTags]
             ELSE fields[i]]
    ELSE Append(fields, [key |-> "tags", value |-> formattedTags])

\* ================================================================== state

\* model identifiers in use: the default of each kind and, for claude, one more
\* entry of CLAUDE_MODELS
Models(k) == IF k = "claude" THEN {DefaultModel(k), "claude-3-5-haiku-20241022"}
             ELSE {DefaultModel(k)}

SettingsSpace ==
    [provider : Kinds, claudeApiKey : BOOLEAN, openaiApiKey : BOOLEAN,
     claudeModel : Models("claude"), openaiModel : Models("openai")]

\* settings that keep the default models: the provider and the keys vary
FileSettings ==
    {s \in SettingsSpace : \A k \in Kinds : ModelOf(s, k) = DefaultModel(k)}

\* settings with the claude key entered: the provider, the openai key and the
\* model vary
KeySettings ==
    {s \in SettingsSpace : s.claudeApiKey}

\* settings with both API keys entered: the provider and the model vary
PoolSettings ==
    {s \in SettingsSpace : \A k \in Kinds : ApiKeyOf(s, k)}

\* a processFile invocation that has not started.  provider and fb are the
\* local variables `provider` and `fallbackResult.provider`; the other fields
\* record what the invocation did
FreshRun ==
    [pc |-> "idle", provider |-> 0, fb |-> 0, shape |-> "none",
     outcome |-> "none",       \* notMd, noProvider, written, failed, threw
     writes |-> 0,             \* completed vault.process / processFrontMatter writes
     primaryCalls |-> 0,       \* generateTags calls on `provider`
     fallbackCalls |-> 0,      \* generateTags calls on the fallback provider
     fbAttempts |-> 0,         \* createFallbackProvider calls
     phase |-> "never",        \* CooldownPhase of the configured kind at createProvider
     hadKey |-> FALSE,         \* the configured kind had an API key at createProvider
     atBound |-> FALSE,        \* the Map held maxActiveProviders entries or more then
     heldKind |-> FALSE,       \* ... and one of them was of the configured kind
     reused |-> FALSE,         \* createProvider returned an entry of the Map, refreshed
     evicted |-> FALSE,        \* createProvider deleted the oldest entry and stored a new one
     pooled |-> FALSE,         \* the Map held a released entry of the configured kind and
                               \* model, last used within maxProviderIdleTime
     gotPooled |-> FALSE,      \* ... and createProvider returned it and left it in the Map
     poolKept |-> FALSE,       \* createProvider left the Map as it was
     raised |-> FALSE,         \* an awaited call of this invocation rejected
     genFailed |-> FALSE,      \* the primary generateTags call rejected
     fbEligible |-> FALSE,     \* ... while the fallback kind had a key and no cooldown
     fbUnavailable |-> FALSE,  \* createFallbackProvider returned no provider
     fbFor |-> "none",         \* the primaryProvider argument of that call
     fbType |-> "none",        \* the fallbackType of its result
     fbReady |-> FALSE,        \* the other kind had a key and no cooldown at that call
     fbGenFailed |-> FALSE,    \* the fallback generateTags call rejected
     acquired |-> {},          \* handles obtained: "primary", "fallback"
     released |-> {}]          \* handles passed to releaseProvider

\* the status bar item is gone (statusBarItem = null)
NoStatusBar == [processed |-> -1, total |-> -1]

\* no tag computation at hand
NoJob == [kind |-> "none", pc |-> "done"]

IdleBatch ==
    [pc |-> "idle", kind |-> "all", total |-> 0, i |-> 0, processed |-> 0,
     errors |-> 0,
     raised |-> 0,             \* files whose processing raised an exception: 0, 1, 2 = more
     provFail |-> FALSE,       \* a provider request of an earlier file of this run failed
     docFailed |-> FALSE,      \* an earlier file failed on its primary and on its fallback
     order |-> <<>>,           \* positions in `files` of the processFile calls made, in call order
     inflight |-> 0,           \* processFile calls made and not yet settled
     delays |-> 0,             \* inter-group delays performed
     progress |-> 0,           \* updateStatusBar calls made after a file
     shown |-> [processed |-> 0, total |-> 0],   \* arguments of the last updateStatusBar call
     display |-> [processed |-> 0, total |-> 0], \* what the status bar shows: processed/total,
                                                 \* "AI Tag: Ready" as 0/0, NoStatusBar
     resetDue |-> FALSE,       \* a status reset scheduled at the end of a run has not fired
     notices |-> <<>>]         \* the Notices of the run, in order

\* the state after onload() with the settings of S
Start(S) ==
    /\ now = 0
    /\ ticks = 0
    /\ loaded = TRUE
    /\ settings \in S
    /\ providerCooldowns = [k \in Kinds |-> 0]
    /\ failedProviders = {}
    /\ activeProviders = <<>>
    /\ cleanupInterval = TRUE
    /\ run = [p \in Procs |-> FreshRun]
    /\ batch = IdleBatch
    /\ reportedAt = [k \in Kinds |-> -1]
    /\ job = NoJob

Init == Start(FileSettings)

\* identities held by a live reference
UsedObjs ==
    {activeProviders[i].obj : i \in 1..Len(activeProviders)}
        \cup {run[p].provider : p \in Procs} \cup {run[p].fb : p \in Procs}

\* identity of the next constructed provider
NewObj == CHOOSE n \in 1..(Cardinality(UsedObjs) + 1) :
              /\ n \notin UsedObjs
              /\ \A m \in 1..(n - 1) : m \in UsedObjs

\* where the clock stands relative to the last reported failure of kind k
CooldownPhase(k) ==
    IF reportedAt[k] < 0 THEN "never"
    ELSE IF now < reportedAt[k] + cooldownDuration THEN "cooling"
    ELSE "elapsed"

\* the call returned an entry the Map ap held, and left the Map as it was but
\* for that entry's lastUsed
ReusedExisting(ap, c, k, t) ==
    \E i \in 1..Len(ap) :
        /\ ap[i].kind = k
        /\ c.ret = ap[i].obj
        /\ c.active = [ap EXCEPT ![i].lastUsed = t]

\* the call deleted one entry of the Map ap, one of smallest lastUsed, and
\* stored the new provider it returned
EvictedOldest(ap, c) ==
    /\ c.ret # 0
    /\ c.ret \notin {ap[j].obj : j \in 1..Len(ap)}
    /\ \E i \in 1..Len(ap) :
          /\ \A h \in 1..Len(ap) : ap[i].lastUsed <= ap[h].lastUsed
          /\ Len(c.active) = Len(ap)
          /\ \A j \in 1..(Len(ap) - 1) :
                c.active[j] = IF j < i THEN ap[j] ELSE ap[j + 1]
          /\ c.active[Len(ap)].obj = c.ret

\* the entries of the Map ap stored under the id of the settings s, released
\* and last used within maxProviderIdleTime of t
PooledEntries(ap, s, t) ==
    {i \in 1..Len(ap) : /\ ap[i].id = getProviderId(s)
                        /\ ap[i].released
                        /\ t - ap[i].lastUsed <= maxProviderIdleTime}

\* the call returned the provider of such an entry, and the entry is still the
\* one stored under that id
ReturnedPooled(ap, c, s, t) ==
    \E i \in PooledEntries(ap, s, t) :
        /\ c.ret = ap[i].obj
        /\ \E j \in 1..Len(c.active) :
              c.active[j].id = ap[i].id /\ c.active[j].obj = ap[i].obj

\* a finished invocation drops its local references
Finish(r, outcome) == [r EXCEPT !.pc = "done", !.outcome = outcome,
                                !.provider = 0, !.fb = 0]

PoolUnchanged == UNCHANGED <<providerCooldowns, failedProviders, cleanupInterval, reportedAt>>
EnvUnchanged == UNCHANGED <<now, ticks, loaded, settings, job>>

\* ============================================================ processFile

\* l.93-113: extension check, createProvider, up to `await this.vault.read`
BeginProcessFile(p, md) ==
    IF ~md
    THEN /\ run' = [run EXCEPT ![p] = Finish(FreshRun, "notMd")]
         /\ UNCHANGED activeProviders
    ELSE LET c == createProvider(activeProviders, providerCooldowns,
                                 failedProviders, settings, now, NewObj)
         IN /\ activeProviders' = c.active
            /\ run' = [run EXCEPT ![p] =
                         LET r0 == [FreshRun EXCEPT
                                      !.fbAttempts = c.fbCalls,
                                      !.phase = CooldownPhase(settings.provider),
                                      !.hadKey = ApiKeyOf(settings, settings.provider),
                                      !.atBound = Len(activeProviders) >= maxActiveProviders,
                                      !.heldKind = \E i \in 1..Len(activeProviders) :
                                          activeProviders[i].kind = settings.provider,
                                      !.reused = ReusedExisting(activeProviders, c,
                                                                settings.provider, now),
                                      !.evicted = EvictedOldest(activeProviders, c),
                                      !.pooled = PooledEntries(activeProviders, settings,
                                                               now) # {},
                                      !.gotPooled = ReturnedPooled(activeProviders, c,
                                                                   settings, now),
                                      !.poolKept = c.active = activeProviders]
                         IN IF c.ret = 0
                            THEN Finish(r0, "noProvider")
                            ELSE [r0 EXCEPT !.pc = "read", !.provider = c.ret,
                                            !.acquired = {"primary"}]]

\* l.113-125 / l.156-169: the read resolved; classify and call generateTags
ReadResolves(p, shape) ==
    /\ run[p].pc = "read"
    /\ run' = [run EXCEPT ![p].shape = shape, ![p].primaryCalls = 1,
                          ![p].pc = IF shape = "NoMetadata" THEN "genNoFm"
                                    ELSE "genPrimary"]
    /\ UNCHANGED <<activeProviders, batch>>
    /\ PoolUnchanged /\ EnvUnchanged

\* l.257-264: the read rejected; the outer catch releases the provider
ReadRejects(p) ==
    /\ run[p].pc = "read"
    /\ activeProviders' = releaseProvider(activeProviders, run[p].provider, now)
    /\ run' = [run EXCEPT ![p] =
                 Finish([run[p] EXCEPT !.released = @ \cup {"primary"},
                                       !.raised = TRUE], "failed")]
    /\ UNCHANGED batch
    /\ PoolUnchanged /\ EnvUnchanged

\* l.123-135: generateTags resolved for a file without frontmatter
GenNoFmResolves(p) ==
    /\ run[p].pc = "genNoFm"
    /\ run' = [run EXCEPT ![p].pc = "writeNoFm"]
    /\ UNCHANGED <<activeProviders, batch>>
    /\ PoolUnchanged /\ EnvUnchanged

\* l.145-153: the inner catch of the no-frontmatter branch
NoFmCatch(p, genFailed) ==
    /\ activeProviders' = releaseProvider(activeProviders, run[p].provider, now)
    /\ run' = [run EXCEPT ![p] =
                 Finish([run[p] EXCEPT
                           !.released = @ \cup {"primary"},
                           !.raised = TRUE,
                           !.genFailed = genFailed,
                           !.fbEligible =
                               /\ genFailed
                               /\ ApiKeyOf(settings, Other(settings.provider))
                               /\ ~isProviderInCooldown(providerCooldowns,
                                                        Other(settings.provider), now)],
                        "failed")]
    /\ UNCHANGED batch
    /\ PoolUnchanged /\ EnvUnchanged

GenNoFmRejects(p) ==
    /\ run[p].pc = "genNoFm"
    /\ NoFmCatch(p, TRUE)

\* the same without the `return` of l.144: control runs on into the
\* frontmatter branch and requests tags again
WriteNoFmResolvesNoReturn(p) ==
    /\ run[p].pc = "writeNoFm"
    /\ activeProviders' = releaseProvider(activeProviders, run[p].provider, now)
    /\ run' = [run EXCEPT ![p].writes = @ + 1,
                          ![p].released = @ \cup {"primary"},
                          ![p].primaryCalls = @ + 1,
                          ![p].pc = "genPrimary"]
    /\ UNCHANGED batch
    /\ PoolUnchanged /\ EnvUnchanged

\* l.130-144: vault.process wrote the file; release and return
WriteNoFmResolves(p) ==
    /\ run[p].pc = "writeNoFm"
    /\ activeProviders' = releaseProvider(activeProviders, run[p].provider, now)
    /\ run' = [run EXCEPT ![p] =
                 Finish([run[p] EXCEPT !.writes = @ + 1,
                                       !.released = @ \cup {"primary"}], "written")]
    /\ UNCHANGED batch
    /\ PoolUnchanged /\ EnvUnchanged

WriteNoFmRejects(p) ==
    /\ run[p].pc = "writeNoFm"
    /\ NoFmCatch(p, FALSE)

\* l.167-179: generateTags resolved for a file with frontmatter
GenPrimaryResolves(p) ==
    /\ run[p].pc = "genPrimary"
    /\ run' = [run EXCEPT ![p].pc = "writePrimary"]
    /\ UNCHANGED <<activeProviders, batch>>
    /\ PoolUnchanged /\ EnvUnchanged

\* l.195-256, up to the fallback's generateTags: reportProviderFailure for the
\* configured kind, createFallbackProvider, then either the fallback request
\* or the "no fallback available" exit
ProviderErrorCatch(p, genFailed) ==
    LET pk == settings.provider
        cd1 == setProviderCooldown(providerCooldowns, pk, now)
        fr == createFallbackProvider(activeProviders, cd1, settings, pk, now, NewObj)
        r1 == [run[p] EXCEPT
                 !.raised = TRUE,
                 !.genFailed = genFailed,
                 !.fbEligible = /\ genFailed
                                /\ ApiKeyOf(settings, Other(pk))
                                /\ ~isProviderInCooldown(cd1, Other(pk), now),
                 !.fbAttempts = @ + 1,
                 !.fbFor = pk,
                 !.fbType = fr.fallbackType,
                 !.fbReady = \A k \in Kinds \ {pk} :
                                 /\ ApiKeyOf(settings, k)
                                 /\ ~isProviderInCooldown(cd1, k, now)]
    IN /\ providerCooldowns' = cd1
       /\ failedProviders' = failedProviders \cup {pk}
       /\ reportedAt' = [reportedAt EXCEPT ![pk] = now]
       /\ activeProviders' = fr.active
       /\ run' = [run EXCEPT ![p] =
                    IF fr.success /\ fr.provider # 0
                    THEN [r1 EXCEPT !.pc = "genFallback", !.fb = fr.provider,
                                    !.fallbackCalls = 1,
                                    !.acquired = @ \cup {"fallback"}]
                    ELSE Finish([r1 EXCEPT !.fbUnavailable = TRUE], "failed")]
       /\ UNCHANGED <<cleanupInterval, batch>>
       /\ EnvUnchanged

GenPrimaryRejects(p) ==
    /\ run[p].pc = "genPrimary"
    /\ ProviderErrorCatch(p, TRUE)

\* l.174-194: processFrontMatter wrote the file; release and return
WritePrimaryResolves(p) ==
    /\ run[p].pc = "writePrimary"
    /\ activeProviders' = releaseProvider(activeProviders, run[p].provider, now)
    /\ run' = [run EXCEPT ![p] =
                 Finish([run[p] EXCEPT !.writes = @ + 1,
                                       !.released = @ \cup {"primary"}], "written")]
    /\ UNCHANGED batch
    /\ PoolUnchanged /\ EnvUnchanged

\* processFrontMatter rejected inside the same try: the provider-error catch runs
WritePrimaryRejects(p) ==
    /\ run[p].pc = "writePrimary"
    /\ ProviderErrorCatch(p, FALSE)

\* l.207-220: the fallback's generateTags resolved
GenFallbackResolves(p) ==
    /\ run[p].pc = "genFallback"
    /\ run' = [run EXCEPT ![p].pc = "writeFallback"]
    /\ UNCHANGED <<activeProviders, batch>>
    /\ PoolUnchanged /\ EnvUnchanged

\* l.232-248: the catch of the fallback attempt releases the fallback provider
FallbackCatch(p, genFailed) ==
    /\ activeProviders' = releaseProvider(activeProviders, run[p].fb, now)
    /\ run' = [run EXCEPT ![p] =
                 Finish([run[p] EXCEPT !.released = @ \cup {"fallback"},
                                       !.raised = TRUE,
                                       !.fbGenFailed = genFailed], "failed")]
    /\ UNCHANGED batch
    /\ PoolUnchanged /\ EnvUnchanged

GenFallbackRejects(p) ==
    /\ run[p].pc = "genFallback"
    /\ FallbackCatch(p, TRUE)

\* l.215-231: the fallback's processFrontMatter wrote the file
WriteFallbackResolves(p) ==
    /\ run[p].pc = "writeFallback"
    /\ activeProviders' = releaseProvider(activeProviders, run[p].fb, now)
    /\ run' = [run EXCEPT ![p] =
                 Finish([run[p] EXCEPT !.writes = @ + 1,
                                       !.released = @ \cup {"fallback"}], "written")]
    /\ UNCHANGED batch
    /\ PoolUnchanged /\ EnvUnchanged

WriteFallbackRejects(p) ==
    /\ run[p].pc = "writeFallback"
    /\ FallbackCatch(p, FALSE)

\* the single-file command: plugin.processFile(file) with showNotices = true
StartSingle(md) ==
    /\ loaded
    /\ run["single"].pc \in {"idle", "done"}
    /\ batch.pc \in {"idle", "finished"}
    /\ BeginProcessFile("single", md)
    /\ batch' = IdleBatch
    /\ PoolUnchanged /\ EnvUnchanged

\* ================================================ processAllFiles / processDirectory

\* the Notices of a batch run
NoFilesNotice == [kind |-> "noFiles"]
ProcessingNotice(total) == [kind |-> "processing", total |-> total]
ProgressNotice(processed, total) ==
    [kind |-> "processed", processed |-> processed, total |-> total]

\* l.367-371 / l.432-436 with the error count shown whatever it is
completionNoticeAlwaysErrors(processed, total, errors) ==
    [kind |-> "completed", processed |-> processed, total |-> total,
     showsErrors |-> TRUE, errors |-> errors]

\* l.367-371 / l.432-436: `Completed. Processed p/t files.` followed by
\* ` Errors: e` when errors > 0
completionNotice(processed, total, errors) ==
    [kind |-> "completed", processed |-> processed, total |-> total,
     showsErrors |-> errors > 0, errors |-> IF errors > 0 THEN errors ELSE 0]

\* updateStatusBar(processed, total) on a status bar showing d: nothing once
\* the status bar item is gone, the progress when total > 0, "AI Tag: Ready" otherwise
updateStatusBar(d, processed, total) ==
    IF d = NoStatusBar THEN d
    ELSE IF total > 0 THEN [processed |-> processed, total |-> total]
    ELSE [processed |-> 0, total |-> 0]

\* l.288-333 / l.386-397: collect the files and initialise the counters.  A
\* directory without markdown files returns after its notice; processAllFiles
\* has no such check and falls through its loop to the completion notice
StartBatch(kind, n) ==
    /\ loaded
    /\ batch.pc \in {"idle", "finished"}
    /\ run["single"].pc \in {"idle", "done"}
    /\ batch' =
         IF kind = "directory" /\ n = 0
         THEN [IdleBatch EXCEPT !.kind = kind, !.pc = "finished",
                                !.notices = <<NoFilesNotice>>,
                                !.display = updateStatusBar(batch.display, 0, 0),
                                !.resetDue = batch.resetDue]
         ELSE LET b == [IdleBatch EXCEPT !.kind = kind, !.total = n,
                                         !.notices = <<ProcessingNotice(n)>>,
                                         !.shown = [processed |-> 0, total |-> n],
                                         !.display = updateStatusBar(batch.display, 0, n),
                                         !.resetDue = batch.resetDue]
              IN IF n = 0
                 THEN [b EXCEPT !.pc = "finished",
                                !.notices = Append(@, completionNotice(0, 0, 0)),
                                !.resetDue = TRUE]
                 ELSE [b EXCEPT !.pc = "call"]
    /\ run' = [p \in Procs |-> FreshRun]
    /\ UNCHANGED activeProviders
    /\ PoolUnchanged /\ EnvUnchanged

\* the call of l.341 / l.406 made without waiting for the previous one to settle
BatchCallNoAwait ==
    /\ batch.pc \in {"call", "await"}
    /\ batch.i + batch.inflight < batch.total
    /\ BeginProcessFile("batch", TRUE)
    /\ batch' = [batch EXCEPT !.pc = "await",
                              !.order = Append(@, batch.i + 1),
                              !.inflight = @ + 1]
    /\ PoolUnchanged /\ EnvUnchanged

\* l.341 / l.406: await this.processFile(file, false)
BatchCall ==
    /\ batch.pc = "call"
    /\ BeginProcessFile("batch", TRUE)
    /\ batch' = [batch EXCEPT !.pc = "await",
                              !.order = Append(@, batch.i + 1),
                              !.inflight = @ + 1]
    /\ PoolUnchanged /\ EnvUnchanged

\* the accounting with no status-bar update after a file whose processing
\* raised an exception
afterProcessFileSkipsFailed(b, r) ==
    LET threw == r.outcome = "threw"
        processed == IF threw THEN b.processed ELSE b.processed + 1
        told == ~threw /\ ~r.raised
    IN [b EXCEPT
          !.i = @ + 1,
          !.inflight = @ - 1,
          !.processed = processed,
          !.errors = IF threw THEN @ + 1 ELSE @,
          !.raised = IF r.raised /\ @ < 2 THEN @ + 1 ELSE @,
          !.provFail = @ \/ r.genFailed \/ r.fbGenFailed,
          !.docFailed = @ \/ (r.genFailed /\ (r.fbUnavailable \/ r.fbGenFailed)),
          !.progress = IF told THEN @ + 1 ELSE @,
          !.shown = IF told THEN [processed |-> processed, total |-> b.total] ELSE @,
          !.display = IF told THEN updateStatusBar(@, processed, b.total) ELSE @,
          !.notices = IF ~threw /\ (processed % 5 = 0 \/ processed = b.total)
                      THEN Append(@, ProgressNotice(processed, b.total)) ELSE @]

\* l.340-359 / l.405-424: the try around one file, once processFile (record r)
\* settled.  Resolved: processed++, updateStatusBar(processed, total) and, every
\* fifth file and at the last one, a notice.  Rejected: errors++ only
afterProcessFile(b, r) ==
    LET threw == r.outcome = "threw"
        processed == IF threw THEN b.processed ELSE b.processed + 1
    IN [b EXCEPT
          !.i = @ + 1,
          !.inflight = @ - 1,
          !.processed = processed,
          !.errors = IF threw THEN @ + 1 ELSE @,
          !.raised = IF r.raised /\ @ < 2 THEN @ + 1 ELSE @,
          !.provFail = @ \/ r.genFailed \/ r.fbGenFailed,
          !.docFailed = @ \/ (r.genFailed /\ (r.fbUnavailable \/ r.fbGenFailed)),
          !.progress = IF threw THEN @ ELSE @ + 1,
          !.shown = IF threw THEN @ ELSE [processed |-> processed, total |-> b.total],
          !.display = IF threw THEN @ ELSE updateStatusBar(@, processed, b.total),
          !.notices = IF ~threw /\ (processed % 5 = 0 \/ processed = b.total)
                      THEN Append(@, ProgressNotice(processed, b.total)) ELSE @]

\* the loops ending after the first complete group
nextStepStopsAfterGroup(j, total) ==
    IF j = total \/ j % batchSize = 0 THEN "finished" ELSE "call"

\* the loops without the delay between two groups
nextStepNoDelay(j, total) ==
    IF j = total THEN "finished" ELSE "call"

\* l.335-338 and l.361-364 / l.400-403 and l.426-429: after file j of total, the
\* loops end, or the group of batchSize files is complete and more files
\* follow (i + batchSize < files.length): delay, or the next file is called
nextStep(j, total) ==
    IF j = total THEN "finished"
    ELSE IF j % batchSize = 0 THEN "delay"
    ELSE "call"

\* l.342-358 and l.361-371 / l.407-423 and l.426-436: processFile settled.  A
\* resolved call counts as processed, a rejected one as an error; then the
\* inter-group delay, the next file or the completion notice
BatchReturn ==
    /\ batch.pc = "await"
    /\ run["batch"].pc = "done"
    /\ LET b == afterProcessFile(batch, run["batch"])
           pc == nextStep(b.i, b.total)
       IN batch' = [b EXCEPT
                      !.pc = pc,
                      !.notices = IF pc = "finished"
                                  THEN Append(@, completionNotice(b.processed, b.total,
                                                                  b.errors))
                                  ELSE @,
                      !.resetDue = @ \/ pc = "finished"]
    /\ run' = [run EXCEPT !["batch"] = FreshRun]
    /\ UNCHANGED activeProviders
    /\ PoolUnchanged /\ EnvUnchanged

\* l.362-364 / l.427-429: the 2-second delay between two groups elapsed
BatchDelayDone ==
    /\ batch.pc = "delay"
    /\ batch' = [batch EXCEPT !.pc = "call", !.delays = @ + 1]
    /\ UNCHANGED <<activeProviders, run>>
    /\ PoolUnchanged /\ EnvUnchanged

\* l.373-378 / l.438-443: the callback of the setTimeout scheduled at the end
\* of a run, 5 seconds later: updateStatusBar(0, 0).  Resets scheduled by
\* several runs and still due fire together
StatusReset ==
    /\ batch.resetDue
    /\ batch' = [batch EXCEPT !.resetDue = FALSE,
                              !.display = updateStatusBar(@, 0, 0)]
    /\ UNCHANGED <<activeProviders, run>>
    /\ PoolUnchanged /\ EnvUnchanged

\* ============================================================= environment

\* the clock advances
Tick(step) ==
    /\ ticks < MaxTicks
    /\ now' = now + step
    /\ ticks' = ticks + 1
    /\ UNCHANGED <<loaded, settings, providerCooldowns, failedProviders,
                   activeProviders, cleanupInterval, run, batch, reportedAt, job>>

\* the settings tab changes one field of the shared settings object, between
\* two commands
ChangeSettings(s) ==
    /\ loaded
    /\ \A p \in Procs : run[p].pc \in {"idle", "done"}
    /\ batch.pc \in {"idle", "finished"}
    /\ s # settings
    /\ Cardinality({f \in DOMAIN s : s[f] # settings[f]}) = 1
    /\ settings' = s
    /\ run' = [p \in Procs |-> FreshRun]     \* the returned invocations are forgotten
    /\ batch' = IdleBatch
    /\ UNCHANGED <<now, ticks, loaded, providerCooldowns, failedProviders,
                   activeProviders, cleanupInterval, reportedAt, job>>

\* the setInterval callback of initialize(): cleanupIdleProviders()
Sweep ==
    /\ cleanupInterval
    /\ activeProviders' = cleanupIdleProviders(activeProviders, now)
    /\ UNCHANGED <<run, batch>>
    /\ PoolUnchanged /\ EnvUnchanged

\* onunload(): ProviderFactory.shutdown(); invocations in flight run on
Unload ==
    /\ loaded
    /\ loaded' = FALSE
    /\ LET sd == shutdown(activeProviders, providerCooldowns)
       IN /\ activeProviders' = sd.active
          /\ providerCooldowns' = sd.cooldowns
          /\ cleanupInterval' = sd.interval
    /\ batch' = [batch EXCEPT !.display = NoStatusBar]
    /\ UNCHANGED <<now, ticks, settings, failedProviders, run, reportedAt, job>>

ProcessFileStep(p) ==
    \/ \E shape \in Shapes : ReadResolves(p, shape)
    \/ ReadRejects(p)
    \/ GenNoFmResolves(p)
    \/ GenNoFmRejects(p)
    \/ WriteNoFmResolves(p)
    \/ WriteNoFmRejects(p)
    \/ GenPrimaryResolves(p)
    \/ GenPrimaryRejects(p)
    \/ WritePrimaryResolves(p)
    \/ WritePrimaryRejects(p)
    \/ GenFallbackResolves(p)
    \/ GenFallbackRejects(p)
    \/ WriteFallbackResolves(p)
    \/ WriteFallbackRejects(p)

\* what happens around the commands: time passes, the sweep timer fires, the
\* plugin is unloaded
Environment ==
    \/ \E step \in Steps : Tick(step)
    \/ Sweep
    \/ Unload

\* the single-file command, repeated at will, with settings edited in between
NextFile ==
    \/ \E md \in BOOLEAN : StartSingle(md)
    \/ ProcessFileStep("single")
    \/ \E s \in FileSettings : ChangeSettings(s)
    \/ Environment

SpecFile == Init /\ [][NextFile]_vars

\* the same command with both keys entered, the provider and the model edited
\* in between
InitPool == Start(PoolSettings)

NextPool ==
    \/ \E md \in BOOLEAN : StartSingle(md)
    \/ ProcessFileStep("single")
    \/ \E s \in PoolSettings : ChangeSettings(s)
    \/ Environment

SpecPool == InitPool /\ [][NextPool]_vars

\* the same command with the claude key entered; the provider, the model and
\* the openai key are edited in between
InitKeys == Start(KeySettings)

NextKeys ==
    \/ \E md \in BOOLEAN : StartSingle(md)
    \/ ProcessFileStep("single")
    \/ \E s \in KeySettings : ChangeSettings(s)
    \/ Environment

SpecKeys == InitKeys /\ [][NextKeys]_vars

\* the batch commands, repeated at will, under the settings loaded at start,
\* each issued once the status reset of the run before has fired
NextBatch ==
    \/ \E kind \in {"all", "directory"}, n \in BatchTotals :
           ~batch.resetDue /\ StartBatch(kind, n)
    \/ BatchCall
    \/ ProcessFileStep("batch")
    \/ BatchReturn
    \/ BatchDelayDone
    \/ StatusReset
    \/ Environment

SpecBatch == Init /\ [][NextBatch]_vars

\* the batch commands issued at any time, also within the 5 seconds between
\* the end of a run and its status reset
NextStatus ==
    \/ \E kind \in {"all", "directory"}, n \in BatchTotals : StartBatch(kind, n)
    \/ BatchCall
    \/ ProcessFileStep("batch")
    \/ BatchReturn
    \/ BatchDelayDone
    \/ StatusReset

SpecStatus == Init /\ [][NextStatus]_vars

\* the same commands where every awaited call settles: the requests and the
\* storage calls of processFile resolve or reject, the delay between two
\* groups elapses, and the loop goes on once the call it awaits has settled
SpecBatchLive ==
    /\ Init /\ [][NextStatus]_vars
    /\ WF_vars(BatchCall)
    /\ WF_vars(ProcessFileStep("batch"))
    /\ WF_vars(BatchReturn)
    /\ WF_vars(BatchDelayDone)

\* ====================================================== tag computations

\* tags of at most MaxLen characters
TagStrings == SeqsUpTo(TagChars, MaxLen)

\* getAllVaultTags() returns Array.from of a Set: n distinct tags in some order
Vocabularies(n) ==
    {v \in [1..n -> TagStrings] : \A i, j \in 1..n : i # j => v[i] # v[j]}

\* thresholds findSimilarTags is applied with
Thresholds == {1, defaultThreshold}

\* findSimilarTags on one tag
SimilarJob(existingTags, tag, threshold) ==
    [kind |-> "similar", pc |-> "input", existingTags |-> existingTags, tag |-> tag,
     threshold |-> threshold, similarTags |-> <<>>]

\* enhanceTagConsistency on a list of generated tags
EnhanceJob(existingTags, generatedTags) ==
    [kind |-> "enhance", pc |-> "input", existingTags |-> existingTags,
     generatedTags |-> generatedTags, picked |-> <<>>, enhancedTags |-> <<>>]

\* the normalization of formatTags on one raw tag
NormalizeJob(raw) ==
    [kind |-> "normalize", pc |-> "input", raw |-> raw, once |-> <<>>, twice |-> <<>>]

\* the lines a document is made of: the delimiter, a longer line that begins
\* with it, a tags field, any other line, the empty line
DocLines == {Line("---"), Line("---x"), Line("tags: t"), Line("note"), Line("")}

\* the texts vault.read may return
Contents == SeqsUpTo(DocLines, MaxLines) \ {<<>>}

\* elements of a JSON array answer (a tag in uppercase, the same in lowercase,
\* a tag of punctuation only); pieces of any other answer
ResponseTags == {<<"B">>, <<"b">>, <<"-">>}
RawPieces == {<<>>, <<" ">>, <<"a">>}

Responses ==
    {[shape |-> sh, text |-> NoText] : sh \in {"null", "noBlocks", "nonText"}}
        \cup {[shape |-> "text", text |-> [json |-> TRUE, tags |-> t, pieces |-> <<>>]] :
                  t \in SeqsUpTo(ResponseTags, MaxItems)}
        \cup {[shape |-> "text", text |-> [json |-> FALSE, tags |-> <<>>, pieces |-> ps]] :
                  ps \in SeqsUpTo(RawPieces, MaxItems) \ {<<>>}}

\* vocabularies and prefixes (settings.tagPrefix) a document is tagged under
DocVocabularies == {<<>>, <<<<"b">>>>}
Prefixes == {<<>>, <<"p", "/">>}

\* one document through extractFrontmatter, generateTags, enhanceTagConsistency,
\* formatTags and the write
DocumentJob(content) ==
    [kind |-> "document", pc |-> "input", content |-> content,
     hasFrontmatter |-> FALSE, frontmatter |-> <<>>, hasTags |-> FALSE,
     provider |-> "claude", response |-> [shape |-> "null", text |-> NoText],
     formattedTags |-> <<>>,
     data |-> content,         \* the text of the file as it is now
     prefix |-> <<>>,          \* settings.tagPrefix at formatTags
     written |-> <<>>,         \* the text vault.process was given (no frontmatter)
     tagsSet |-> FALSE]        \* frontmatter["tags"] was assigned formattedTags

\* the frontmatter object handed to the callback of processFrontMatter:
\* properties in order, every value a list
FieldKeys == {"title", "tags", "date"}
FieldValues == {<<>>, <<<<"a">>>>}
FieldLists ==
    UNION {{f \in [1..n -> [key : FieldKeys, value : FieldValues]] :
               \A i, j \in 1..n : i # j => f[i].key # f[j].key} : n \in 0..MaxEntries}

FrontMatterJob(fields, formattedTags) ==
    [kind |-> "frontMatter", pc |-> "input", fields |-> fields,
     formattedTags |-> formattedTags, result |-> <<>>]

OrchestratorUnchanged ==
    UNCHANGED <<now, ticks, loaded, settings, providerCooldowns, failedProviders,
                activeProviders, cleanupInterval, run, batch, reportedAt>>

\* TagUtils.findSimilarTags(tag, threshold)
FindSimilar ==
    /\ job.kind = "similar" /\ job.pc = "input"
    /\ job' = [job EXCEPT !.pc = "done",
                          !.similarTags = findSimilarTags(job.existingTags, job.tag,
                                                          job.threshold)]
    /\ OrchestratorUnchanged

\* FileProcessor.enhanceTagConsistency(generatedTags); picked records the tag
\* added to the Set for each candidate
Enhance ==
    /\ job.kind = "enhance" /\ job.pc = "input"
    /\ job' = [job EXCEPT
                 !.pc = "done",
                 !.picked = [i \in 1..Len(job.generatedTags) |->
                                enhanceOneTag(job.existingTags, job.generatedTags[i])],
                 !.enhancedTags = enhanceTagConsistency(job.existingTags,
                                                        job.generatedTags)]
    /\ OrchestratorUnchanged

\* the normalization of formatTags, applied once and again to its own result
Normalize ==
    /\ job.kind = "normalize" /\ job.pc = "input"
    /\ job' = [job EXCEPT !.pc = "done",
                          !.once = normalize(job.raw),
                          !.twice = normalize(normalize(job.raw))]
    /\ OrchestratorUnchanged

\* l.113-117, l.163: the text read is classified
ReadDocument ==
    /\ job.kind = "document" /\ job.pc = "input"
    /\ LET fm == extractFrontmatter(job.content)
       IN job' = [job EXCEPT !.pc = "classified",
                             !.hasFrontmatter = fm.hasFrontmatter,
                             !.frontmatter = fm.frontmatter,
                             !.hasTags = fm.hasFrontmatter /\ hasTagsField(fm.frontmatter)]
    /\ OrchestratorUnchanged

\* l.123 / l.167: provider.generateTags settles on the backend's answer
RequestTags(kind, response) ==
    /\ job.kind = "document" /\ job.pc = "classified"
    /\ job' = [job EXCEPT !.pc = IF generateTags(kind, response).ok THEN "generated"
                                 ELSE "failed",
                          !.provider = kind,
                          !.response = response]
    /\ OrchestratorUnchanged

\* the user, or another plugin, adds a line to the file while the request is
\* in flight
EditDocument ==
    /\ job.kind = "document" /\ job.pc = "classified"
    /\ job.data = job.content
    /\ job' = [job EXCEPT !.data = Append(@, Line("note"))]
    /\ OrchestratorUnchanged

\* l.126-135 / l.170-179: enhanceTagConsistency, formatTags and the write.  The
\* callback of vault.process ignores its argument (the text of the file now)
\* and builds the new text from the text read at l.113
ReconcileAndWrite(existingTags, prefix) ==
    /\ job.kind = "document" /\ job.pc = "generated"
    /\ LET tags == generateTags(job.provider, job.response).tags
           enhancedTags == enhanceTagConsistency(existingTags, tags)
           formattedTags == formatTags(prefix, enhancedTags)
       IN job' = [job EXCEPT
                    !.pc = "written",
                    !.formattedTags = formattedTags,
                    !.prefix = prefix,
                    !.written = IF job.hasFrontmatter THEN <<>>
                                ELSE createContentWithTags(job.content, formattedTags),
                    !.tagsSet = job.hasFrontmatter]
    /\ OrchestratorUnchanged

\* l.176-178 / l.217-219: the callback of processFrontMatter
UpdateFrontMatter ==
    /\ job.kind = "frontMatter" /\ job.pc = "input"
    /\ job' = [job EXCEPT !.pc = "done",
                          !.result = setTags(job.fields, job.formattedTags)]
    /\ OrchestratorUnchanged

\* the inputs of the tag computations: a vocabulary and a tag with a
\* threshold; a vocabulary and a list of generated tags, MaxEntries tags in
\* all; a raw tag; a text; a frontmatter object and a list of formatted tags
JobInputs ==
    \/ \E n \in 0..(MaxEntries - 1) :
          \E v \in Vocabularies(n), t \in TagStrings, th \in Thresholds :
              job = SimilarJob(v, t, th)
    \/ \E n \in 0..MaxEntries, m \in 0..MaxEntries :
          /\ n + m <= MaxEntries
          /\ \E v \in Vocabularies(n), g \in [1..m -> TagStrings] :
                job = EnhanceJob(v, g)
    \/ \E r \in SeqsUpTo(RawChars, MaxRawLen) : job = NormalizeJob(r)
    \/ \E c \in Contents : job = DocumentJob(c)
    \/ \E f \in FieldLists, t \in SeqsUpTo({<<"a">>, <<"b">>}, MaxItems) :
          job = FrontMatterJob(f, t)

\* the plugin as loaded, with one tag computation at hand
InitTags ==
    /\ now = 0
    /\ ticks = 0
    /\ loaded = TRUE
    /\ settings = [provider |-> "claude", claudeApiKey |-> FALSE, openaiApiKey |-> FALSE,
                   claudeModel |-> DefaultModel("claude"),
                   openaiModel |-> DefaultModel("openai")]
    /\ providerCooldowns = [k \in Kinds |-> 0]
    /\ failedProviders = {}
    /\ activeProviders = <<>>
    /\ cleanupInterval = TRUE
    /\ run = [p \in Procs |-> FreshRun]
    /\ batch = IdleBatch
    /\ reportedAt = [k \in Kinds |-> -1]
    /\ JobInputs

NextTags ==
    \/ FindSimilar
    \/ Enhance
    \/ Normalize
    \/ ReadDocument
    \/ EditDocument
    \/ \E kind \in Kinds, response \in Responses : RequestTags(kind, response)
    \/ \E existingTags \in DocVocabularies, prefix \in Prefixes :
           ReconcileAndWrite(existingTags, prefix)
    \/ UpdateFrontMatter

SpecTags == InitTags /\ [][NextTags]_vars

\* every command and every tag computation
Next == NextFile \/ NextPool \/ NextKeys \/ NextBatch \/ NextStatus \/ NextTags

Spec == Init /\ [][Next]_vars

TypeOK ==
    /\ now \in Nat
    /\ ticks \in 0..MaxTicks
    /\ settings \in SettingsSpace
    /\ failedProviders \subseteq Kinds
    /\ \A p \in Procs : run[p].writes \in 0..1

\* ================================================================== claims

Done(p) == run[p].pc = "done"

\* C1: for every document shape, when the primary generateTags call fails
\* while the fallback kind has an API key and is not in cooldown, the
\* invocation makes exactly one fallback generateTags call before it ends.
C1_OneFallbackCallAfterPrimaryFailure ==
    \A p \in Procs :
        (Done(p) /\ run[p].genFailed /\ run[p].fbEligible)
            => run[p].fallbackCalls = 1

\* C2: while the cooldown interval after reportProviderFailure(kind) has not
\* elapsed, every createProvider call configured for that kind returns null.
C2_CooldownRefusesAcquire ==
    \A p \in Procs :
        (run[p].pc # "idle" /\ run[p].outcome # "notMd" /\ run[p].phase = "cooling")
            => (Done(p) /\ run[p].outcome = "noProvider")

C2_Witness ==
    \E p \in Procs :
        /\ Done(p) /\ run[p].outcome = "noProvider" /\ run[p].phase = "cooling"
        /\ run[p].hadKey
        /\ now > reportedAt[settings.provider]

\* C3: once the cooldown interval has elapsed after reportProviderFailure(kind),
\* a createProvider call for that kind with an API key returns a handle.
C3_AcquirableAfterCooldown ==
    \A p \in Procs :
        (run[p].pc # "idle" /\ run[p].outcome # "notMd"
            /\ run[p].phase = "elapsed" /\ run[p].hadKey)
            => run[p].outcome # "noProvider"

\* C4: the active-provider Map never holds more than maxActiveProviders handles.
C4_PoolBound == Len(activeProviders) <= maxActiveProviders

\* C5: in a batch run over N files in which the processing of exactly one file
\* raises an exception, the run ends with processed = N - 1 and errors = 1.
C5_BatchCountsAfterOneThrow ==
    (batch.pc = "finished" /\ batch.raised = 1)
        => (batch.i = batch.total /\ batch.processed = batch.total - 1
            /\ batch.errors = 1)

\* C6: a file whose primary request fails and whose fallback is unavailable
\* or also fails ends failed, unwritten, and is counted in the run's errors.
C6_FailedDocumentCounted ==
    /\ (Done("batch") /\ run["batch"].genFailed
            /\ (run["batch"].fbUnavailable \/ run["batch"].fbGenFailed))
        => (run["batch"].outcome = "failed" /\ run["batch"].writes = 0)
    /\ batch.docFailed => batch.errors >= 1

\* C7: after a provider request of one file failed, no later file of the same
\* batch run is skipped, without any provider request, for lack of a provider
\* (stated for settings in which both kinds have an API key).
C7_LaterDocumentsAttempted ==
    (batch.pc = "await" /\ Done("batch") /\ batch.provFail
        /\ settings.claudeApiKey /\ settings.openaiApiKey)
        => run["batch"].outcome # "noProvider"

\* C8: when createProvider yields null for the configured kind, the invocation
\* makes exactly one createFallbackProvider attempt before it gives up.
C8_UnavailablePrimaryTriesFallback ==
    \A p \in Procs :
        (Done(p) /\ run[p].outcome = "noProvider") => run[p].fbAttempts = 1

\* C9: an invocation writes the document exactly once when it ends in success,
\* not at all when it ends in failure, and never more than once.
C9_OneWritePerSuccess ==
    \A p \in Procs :
        /\ run[p].writes <= 1
        /\ (Done(p) /\ run[p].outcome = "written") => run[p].writes = 1
        /\ (Done(p) /\ run[p].outcome # "written") => run[p].writes = 0

C9_Witness ==
    \E p \in Procs :
        /\ Done(p) /\ run[p].outcome = "written" /\ run[p].writes = 1
        /\ run[p].fallbackCalls = 1 /\ run[p].raised

\* C10: every handle an invocation obtained (the primary and, if used, the
\* fallback) has been passed to releaseProvider when the invocation returns.
C10_HandlesReleased ==
    \A p \in Procs : Done(p) => run[p].acquired \subseteq run[p].released

\* C11: when the primary generateTags call fails while the fallback kind has
\* no API key or is in cooldown, the invocation makes no fallback generateTags
\* call, writes nothing and ends failed after its single primary request.
C11_NoFallbackWhenUnavailable ==
    \A p \in Procs :
        (Done(p) /\ run[p].genFailed /\ ~run[p].fbEligible)
            => /\ run[p].fallbackCalls = 0
               /\ run[p].writes = 0
               /\ run[p].primaryCalls = 1
               /\ run[p].outcome = "failed"

\* the fallback kind has a key but is in cooldown, on a file with frontmatter
C11_Witness ==
    \E p \in Procs :
        /\ Done(p) /\ run[p].genFailed /\ ~run[p].fbEligible
        /\ run[p].shape # "NoMetadata"
        /\ ApiKeyOf(settings, Other(settings.provider))
        /\ run[p].fbUnavailable /\ run[p].fallbackCalls = 0

\* the candidates of an enhance job that are no vocabulary entry and have an
\* entry within the default threshold
Dist(i, j) == levenshteinDistance(job.generatedTags[i], job.existingTags[j])

\* C12: a candidate without exact vocabulary match and with an entry within
\* edit distance 2 is replaced by an entry at the smallest edit distance from it.
C12_ClosestMatchSubstituted ==
    (job.kind = "enhance" /\ job.pc = "done")
        => \A i \in 1..Len(job.generatedTags) :
              (/\ job.generatedTags[i] \notin Range(job.existingTags)
               /\ \E j \in 1..Len(job.existingTags) : Dist(i, j) <= 2)
                  => \E j \in 1..Len(job.existingTags) :
                        /\ job.picked[i] = job.existingTags[j]
                        /\ \A h \in 1..Len(job.existingTags) : Dist(i, j) <= Dist(i, h)

\* positions of the vocabulary in the order claimed for findSimilarTags:
\* ascending distance, ties in vocabulary order
SimDist(j) == levenshteinDistance(job.tag, job.existingTags[j])

\* C13: findSimilarTags returns exactly the entries at distance d, 0 < d <=
\* threshold, in ascending distance, ties in vocabulary order.
C13_SimilarTagsSortedByDistance ==
    (job.kind = "similar" /\ job.pc = "done")
        => LET hits == {j \in 1..Len(job.existingTags) :
                           SimDist(j) > 0 /\ SimDist(j) <= job.threshold}
               Before(j, h) == SimDist(j) < SimDist(h) \/ (SimDist(j) = SimDist(h) /\ j < h)
               Rank(j) == 1 + Cardinality({h \in hits : Before(h, j)})
           IN /\ Len(job.similarTags) = Cardinality(hits)
              /\ \A j \in hits : job.similarTags[Rank(j)] = job.existingTags[j]

\* C14: a candidate equal to a vocabulary entry is kept as it is.
C14_ExactMatchKept ==
    (job.kind = "enhance" /\ job.pc = "done")
        => \A i \in 1..Len(job.generatedTags) :
              job.generatedTags[i] \in Range(job.existingTags)
                  => /\ job.picked[i] = job.generatedTags[i]
                     /\ job.generatedTags[i] \in Range(job.enhancedTags)

\* an exact match whose vocabulary also holds another entry within the threshold,
\* placed before it
C14_Witness ==
    /\ job.kind = "enhance" /\ job.pc = "done"
    /\ \E i \in 1..Len(job.generatedTags), j, h \in 1..Len(job.existingTags) :
          /\ job.generatedTags[i] = job.existingTags[j]
          /\ h < j /\ Dist(i, h) <= 2
          /\ job.picked[i] = job.generatedTags[i]

\* C15: the normalization of formatTags is idempotent: applied to its own
\* result it returns that result.
C15_NormalizeIdempotent ==
    (job.kind = "normalize" /\ job.pc = "done") => job.twice = job.once

\* a raw tag the normalization shortens to a non-empty tag
C15_Witness ==
    /\ job.kind = "normalize" /\ job.pc = "done"
    /\ Len(job.raw) = 3 /\ Len(job.once) = 1
    /\ job.raw[1] \notin AllowedChars
    /\ job.twice = job.once

\* C16: for a non-empty text without metadata block and a non-empty tag list,
\* the text written is the line "---", the tags field, the lines "---" and "",
\* then the text as it was read; the tags field is the one line "tags: [t]"
\* for one tag and the line "tags:" followed by one "  - t" line per tag, in
\* list order, for more.
C16_PrependedBlockExact ==
    (/\ job.kind = "document" /\ job.pc = "written" /\ ~job.hasFrontmatter
     /\ job.content # EmptyText /\ Len(job.formattedTags) > 0)
        => LET n == Len(job.formattedTags)
               k == IF n = 1 THEN 1 ELSE n + 1
               w == job.written
           IN /\ Len(w) = 1 + k + 2 + Len(job.content)
              /\ w[1] = Line("---")
              /\ IF n = 1
                 THEN w[2] = TagLine("tags: [", job.formattedTags[1], "]")
                 ELSE /\ w[2] = Line("tags:")
                      /\ \A i \in 1..n : w[2 + i] = TagLine("  - ", job.formattedTags[i], "")
              /\ w[k + 2] = Line("---")
              /\ w[k + 3] = Line("")
              /\ \A i \in 1..Len(job.content) : w[k + 3 + i] = job.content[i]

\* a text of several lines written with exactly one tag
C16_Witness ==
    /\ job.kind = "document" /\ job.pc = "written" /\ ~job.hasFrontmatter
    /\ Len(job.content) >= 2 /\ Len(job.formattedTags) = 1
    /\ job.formattedTags[1] # <<>>
    /\ job.written[2] = TagLine("tags: [", job.formattedTags[1], "]")

NoUsableContent(response) ==
    \/ response.shape \in {"null", "noBlocks", "nonText"}
    \/ response.shape = "text" /\ ~response.text.json /\ response.text.pieces = <<<<>>>>

\* C18: when the backend returns no text block or an empty text, the request
\* fails with an error: no tag list comes out of it and no document gets its
\* tags replaced by the empty list.
C18_EmptyResponseIsError ==
    (/\ job.kind = "document" /\ job.pc \in {"generated", "written", "failed"}
     /\ NoUsableContent(job.response))
        => /\ job.pc = "failed"
           /\ ~(job.tagsSet /\ job.formattedTags = <<>>)

\* the text begins with the opening delimiter and has no closing delimiter
\* after it: no line, from the third on, that begins with "---"
Unclosed(content) ==
    /\ content[1] = Line("---")
    /\ \A j \in 3..Len(content) : ~StartsWithDashes(content[j])

\* C19 (as stated): a text that begins with the opening delimiter and has no
\* closing delimiter is not classified and not rewritten, and a text is
\* classified as without metadata only when it does not begin with the
\* opening delimiter.
C19_UnclosedBlockIsError ==
    (job.kind = "document" /\ job.pc # "input")
        => /\ Unclosed(job.content) => job.pc = "malformed"
           /\ ~job.hasFrontmatter => job.content[1] # Line("---")

\* C19 (amended): a text that begins with the opening delimiter and has no
\* closing delimiter is classified as without metadata, like a text that does
\* not begin with the opening delimiter, and these are the only such texts; a
\* run that obtains tags for it writes the new block followed by the text as
\* it was read.
C19_UnclosedBlockIsNoMetadata ==
    (job.kind = "document" /\ job.pc # "input")
        => /\ ~job.hasFrontmatter <=>
                  (job.content[1] # Line("---") \/ Unclosed(job.content))
           /\ (Unclosed(job.content) /\ job.pc = "written")
                 => /\ ~job.tagsSet
                    /\ Len(job.written) >= Len(job.content)
                    /\ SubSeq(job.written, Len(job.written) - Len(job.content) + 1,
                              Len(job.written)) = job.content
                    /\ Len(job.formattedTags) > 0
                          => /\ Len(job.written) > Len(job.content)
                             /\ job.written[1] = Line("---")

\* an opened, unclosed block of several lines gets a block prepended
C19_Witness ==
    /\ job.kind = "document" /\ job.pc = "written"
    /\ Unclosed(job.content) /\ Len(job.content) >= 3
    /\ Len(job.formattedTags) > 0
    /\ job.written[1] = Line("---") /\ Len(job.written) > Len(job.content)

\* C20: a createProvider call made while the configured kind has no API key
\* returns null, whatever the pool holds.
C20_NoKeyNoProvider ==
    \A p \in Procs :
        (run[p].pc # "idle" /\ run[p].outcome # "notMd" /\ ~run[p].hadKey)
            => (Done(p) /\ run[p].outcome = "noProvider")

\* C21: outside the cooldown period of the configured kind, a createProvider
\* call that finds the pool at its bound with a handle of that kind in it
\* returns that handle, stores no new one, deletes none and sets the handle's
\* last-used time to the time of the call
C21_ReuseAtBound ==
    \A p \in Procs :
        (/\ run[p].pc # "idle"
         /\ run[p].atBound
         /\ run[p].heldKind
         /\ run[p].phase # "cooling")
        => run[p].reused

\* C22: outside the cooldown period of the configured kind, a createProvider
\* call that finds the pool at its bound without a handle of that kind deletes
\* exactly one handle, one of smallest last-used time, and stores the new one
C22_EvictOldestAtBound ==
    \A p \in Procs :
        (/\ run[p].pc # "idle"
         /\ run[p].atBound
         /\ ~run[p].heldKind
         /\ run[p].phase # "cooling")
        => run[p].evicted

\* C23: createFallbackProvider called for claude answers with openai and called
\* for openai answers with claude, never with the kind it was called for; and
\* it returns no provider exactly when the other kind has no API key or is in
\* its cooldown period
C23_FallbackMapping ==
    \A p \in Procs :
        run[p].fbFor # "none" =>
            /\ run[p].fbType \in Kinds \ {run[p].fbFor}
            /\ run[p].fbFor = "claude" => run[p].fbType = "openai"
            /\ run[p].fbFor = "openai" => run[p].fbType = "claude"
            /\ run[p].fbUnavailable <=> ~run[p].fbReady

\* a fallback was asked for openai while claude, with its key entered, was in
\* its cooldown period: no provider came back
C23_Witness ==
    \E p \in Procs :
        /\ run[p].fbFor = "openai"
        /\ run[p].fbType = "claude"
        /\ run[p].fbUnavailable
        /\ settings.claudeApiKey
        /\ isProviderInCooldown(providerCooldowns, "claude", now)

\* the handle passed to releaseProvider by the step that extends released
ReleasedHandle(p) ==
    IF "primary" \in run'[p].released \ run[p].released
    THEN run[p].provider ELSE run[p].fb

\* C24: a step that calls releaseProvider(handle) leaves the pool with the
\* same entries in the same order, each with the provider it had; the last-used
\* time of an entry changes only if it holds the handle, and then to the time
\* of the call; cooldowns, failed kinds and the timer stay as they were; with
\* the handle in no entry the pool is unchanged
C24_ReleaseFrame ==
    [][\A p \in Procs :
          (run[p].pc \notin {"idle", "done"} /\ run'[p].released # run[p].released) =>
              /\ Len(activeProviders') = Len(activeProviders)
              /\ \A i \in 1..Len(activeProviders) :
                    /\ activeProviders'[i].id = activeProviders[i].id
                    /\ activeProviders'[i].kind = activeProviders[i].kind
                    /\ activeProviders'[i].obj = activeProviders[i].obj
                    /\ \/ activeProviders'[i].lastUsed = activeProviders[i].lastUsed
                       \/ /\ activeProviders[i].obj = ReleasedHandle(p)
                          /\ activeProviders'[i].lastUsed = now
              /\ (\A i \in 1..Len(activeProviders) :
                      activeProviders[i].obj # ReleasedHandle(p))
                  => activeProviders' = activeProviders
              /\ (\E i \in 1..Len(activeProviders) :
                      activeProviders[i].obj = ReleasedHandle(p))
                  => \E i \in 1..Len(activeProviders) :
                         /\ activeProviders[i].obj = ReleasedHandle(p)
                         /\ activeProviders'[i].lastUsed = now
              /\ UNCHANGED <<providerCooldowns, failedProviders, cleanupInterval>>
      ]_vars

\* a fallback handle stored at time 0 was released later: its entry is still in
\* the pool with the later time, next to the primary's entry, still of time 0
C24_Witness ==
    /\ Done("single")
    /\ "fallback" \in run["single"].released
    /\ now > 0
    /\ Len(activeProviders) = 2
    /\ \E i, j \in 1..2 :
          /\ activeProviders[i].id.fallback
          /\ activeProviders[i].id.at = 0
          /\ activeProviders[i].lastUsed = now
          /\ ~activeProviders[j].id.fallback
          /\ activeProviders[j].lastUsed = 0

\* C30: the step of onunload() that runs shutdown() ends with no handle in the
\* pool, no cooldown entry and no cleanup timer, whatever the pool held before
C30_ShutdownClearsPool ==
    [][(loaded /\ ~loaded') =>
          /\ activeProviders' = <<>>
          /\ \A k \in Kinds : providerCooldowns'[k] = 0
          /\ ~cleanupInterval'
      ]_vars

\* shutdown() ran after a failure had been reported and handles stored, with no
\* invocation in flight: pool, cooldowns and timer are empty
C30_Witness ==
    /\ ~loaded
    /\ \A p \in Procs : run[p].pc \in {"idle", "done"}
    /\ run["single"].acquired = {"primary", "fallback"}
    /\ \E k \in Kinds : reportedAt[k] >= 0
    /\ activeProviders = <<>>
    /\ \A k \in Kinds : providerCooldowns[k] = 0
    /\ ~cleanupInterval

\* C25: a batch run over N > 0 files has performed ceil(N / batchSize) - 1
\* delays when it ends; while it runs, one delay has been performed per group
\* completed before the current one, and a delay is only ever pending with a
\* complete group behind it and files still to come: none follows the last group
C25_DelaysBetweenGroups ==
    /\ (batch.pc = "finished" /\ batch.total > 0) =>
           batch.delays = ((batch.total + batchSize - 1) \div batchSize) - 1
    /\ batch.pc \in {"call", "await"} => batch.delays = batch.i \div batchSize
    /\ batch.pc = "delay" =>
           /\ batch.i < batch.total
           /\ batch.i % batchSize = 0
           /\ batch.delays = (batch.i \div batchSize) - 1

\* a run over more than one group ended, with a delay behind it
C25_Witness ==
    /\ batch.pc = "finished"
    /\ batch.total > batchSize
    /\ batch.delays >= 1

\* C26: updateStatusBar(processed, total) has been called once for every file
\* whose processFile call has settled, files whose processing raised an
\* exception included, and its last call carried the current counters
C26_ProgressAfterEveryFile ==
    batch.pc # "idle" =>
        /\ batch.progress = batch.i
        /\ batch.shown = [processed |-> batch.processed, total |-> batch.total]

\* two files have settled, the processing of one of them raised an exception,
\* and the status bar was updated after each
C26_Witness ==
    /\ batch.i >= 2
    /\ batch.raised >= 1
    /\ batch.progress = batch.i
    /\ batch.shown.processed = batch.i

C28_EmptyRunReported ==
    (batch.pc = "finished" /\ batch.total = 0) =>
        /\ batch.notices = <<NoFilesNotice>>
        /\ batch.order = <<>>

\* the 'Completed' notices of the run
CompletedNotices == SelectSeq(batch.notices, LAMBDA n : n.kind = "completed")

\* one 'Completed' notice, the last notice of the run, with the counters of the
\* run, the error count in it exactly when it is not zero, and every file
\* counted as processed or as an error
OneSummary ==
    /\ Len(CompletedNotices) = 1
    /\ LET n == batch.notices[Len(batch.notices)]
       IN /\ n.kind = "completed"
          /\ n.processed = batch.processed
          /\ n.total = batch.total
          /\ n.showsErrors <=> batch.errors > 0
          /\ n.showsErrors => n.errors = batch.errors
    /\ batch.processed + batch.errors = batch.total

\* C29 as stated: every batch run that has returned emitted such a summary
C29_OneSummaryEveryRun ==
    batch.pc = "finished" => OneSummary

\* C29: every batch run that has returned emitted such a summary, but for the
\* directory run that found no file: it emitted its notice and no summary
C29_OneSummary ==
    batch.pc = "finished" =>
        IF batch.notices[1] = NoFilesNotice
        THEN batch.kind = "directory" /\ batch.total = 0 /\ Len(CompletedNotices) = 0
        ELSE OneSummary

\* a run over more than one group returned after a file of it had raised an
\* exception: one summary, without an error count
C29_Witness ==
    /\ batch.pc = "finished"
    /\ batch.total > batchSize
    /\ batch.raised >= 1
    /\ OneSummary
    /\ ~batch.notices[Len(batch.notices)].showsErrors

\* C31: outside the cooldown period of the configured kind, a createProvider
\* call that finds in the pool a released handle of the configured kind and
\* model, last used within the idle lifetime, returns that handle, and the
\* handle stays the pool's entry for that kind and model
C31_ReleasedHandleReused ==
    \A p \in Procs :
        (/\ run[p].pc # "idle"
         /\ run[p].pooled
         /\ run[p].phase # "cooling")
        => run[p].gotPooled

\* C33: a createProvider call that returns null leaves the Map of active
\* handles as it was
C33_FailedAcquireKeepsPool ==
    \A p \in Procs :
        run[p].outcome = "noProvider" => run[p].poolKept

\* C34: the provider-error handling of processFile (reportProviderFailure for
\* the configured kind, createFallbackProvider, a request to the fallback) runs
\* only after the provider request failed: a rejected write of a document with
\* a metadata block reports no provider failure and makes no second request
C34_WriteFailureIsNotProviderFailure ==
    \A p \in Procs :
        (run[p].raised /\ ~run[p].genFailed) =>
            /\ run[p].fbFor = "none"
            /\ run[p].fallbackCalls = 0

\* C35: the text written to a document without metadata block ends with the
\* text of the document as it is at the write, whatever was added to it while
\* the request was in flight, and has the synthesized block before it
C35_WriteKeepsConcurrentEdit ==
    (/\ job.kind = "document" /\ job.pc = "written"
     /\ ~job.hasFrontmatter
     /\ job.content # EmptyText
     /\ Len(job.formattedTags) > 0)
    => /\ Len(job.written) > Len(job.data)
       /\ SubSeq(job.written, Len(job.written) - Len(job.data) + 1, Len(job.written))
              = job.data

\* the formatted tags went into the document: assigned to the tags field of
\* its metadata block, or written in the block put before its text
TagsWritten ==
    /\ job.kind = "document" /\ job.pc = "written"
    /\ \/ job.tagsSet
       \/ job.content # EmptyText /\ Len(job.formattedTags) > 0

\* C37: the list of tags written to a document has no two equal entries
C37_WrittenTagsDistinct ==
    TagsWritten =>
        \A i, j \in 1..Len(job.formattedTags) :
            i # j => job.formattedTags[i] # job.formattedTags[j]

\* a tag as the normalization is to leave it: not empty, of lowercase letters,
\* digits, "/" and "-" only, no hyphen first or last, no two hyphens in a row
WellFormedTag(t) ==
    /\ Len(t) > 0
    /\ \A i \in 1..Len(t) : t[i] \in AllowedChars
    /\ t[1] # "-"
    /\ t[Len(t)] # "-"
    /\ \A i \in 1..(Len(t) - 1) : ~(t[i] = "-" /\ t[i + 1] = "-")

\* C38: every tag written to a document is the configured prefix followed by
\* such a tag
C38_WrittenTagsWellFormed ==
    TagsWritten =>
        \A i \in 1..Len(job.formattedTags) :
            LET t == job.formattedTags[i]
                n == Len(job.prefix)
            IN /\ Len(t) >= n
               /\ SubSeq(t, 1, n) = job.prefix
               /\ WellFormedTag(SubSeq(t, n + 1, Len(t)))

\* C39: the text written to a document without metadata block begins with a
\* metadata block that has a tags field, also when no tag was generated and
\* when the document is empty
C39_WrittenTextHasTagsBlock ==
    (job.kind = "document" /\ job.pc = "written" /\ ~job.hasFrontmatter) =>
        /\ Len(job.written) >= 3
        /\ job.written[1] = Line("---")
        /\ job.written[2].pre \in {"tags: [", "tags:"}
        /\ \E k \in 3..Len(job.written) : job.written[k] = Line("---")

\* the entries of the Map a sweep at time t has to leave: those last used no
\* longer than maxProviderIdleTime before t, in their order
NotIdle(ap, t) == SelectSeq(ap, LAMBDA e : t - e.lastUsed <= maxProviderIdleTime)

C36_ProgressNotOverwritten ==
    (loaded /\ batch.pc \in {"call", "await", "delay"}) => batch.display = batch.shown

\* processFile was called once for every file of the run, in the order of the list
AllCalledOnce == batch.order = [i \in 1..batch.total |-> i]

\* a run in its loop returns
RunTerminates == (batch.pc \in {"call", "await", "delay"}) ~> (batch.pc = "finished")

\* C40 as stated: every run returns, and a run that has returned called
\* processFile once for every file and emitted its summary
C40_RunReachesSummary ==
    /\ [](batch.pc = "finished" => (AllCalledOnce /\ OneSummary))
    /\ RunTerminates

\* C40: every run returns, and a run that has returned called processFile
\* once for every file and emitted its summary, but for the directory run that
\* found no file: it emitted its notice and no summary
C40_RunTerminatesWithSummary ==
    /\ [](batch.pc = "finished" =>
            /\ AllCalledOnce
            /\ IF batch.kind = "directory" /\ batch.total = 0
               THEN batch.notices = <<NoFilesNotice>>
               ELSE OneSummary)
    /\ RunTerminates

\* a run over more than one group of files has returned after a call for
\* every file and a delay between the groups, with its summary
C40_Witness ==
    /\ batch.pc = "finished"
    /\ batch.total = MaxDocs
    /\ Len(batch.order) = MaxDocs
    /\ batch.delays > 0
    /\ OneSummary

====
